---- MODULE Spec2Model ----
(***************************************************************************)
(* A model of ptutils' distributed training loop: Trainer                  *)
(* (model_training/trainer.py) and SupervisedImageNetTrainer               *)
(* (model_training/supervised_imagenet_trainer.py).                        *)
(*                                                                         *)
(* One job is a sequence of launches.  A launch starts world_size worker   *)
(* processes (rank 0..world_size-1), each of which constructs its trainer  *)
(* and runs train().  Workers meet only in collective reductions.  The     *)
(* local checkpoint file and the metadata store outlive a launch; all      *)
(* other state is process memory and is lost when the job is relaunched.   *)
(*                                                                         *)
(* Metric values are exact rationals <<numerator, denominator>> in lowest  *)
(* terms, so floating-point rounding is not modelled.                      *)
(***************************************************************************)
EXTENDS Integers, Sequences, FiniteSets

\* ------------------------------------------------------------------ bounds
MaxWorkers == 2
MaxEpochs == 3
MaxFreq == 2
MaxLaunches == 2
CadenceEpochs == 10
CadenceFreq == 4
ScenarioEpochs == 2
MaxBatch == 4

\* `if curr_step % 10 == 0` in train_one_epoch
LogEvery == 10

Ranks == 0 .. (MaxWorkers - 1)

\* ------------------------------------------------------------- rationals
RECURSIVE GCD(_, _)
GCD(a, b) == IF b = 0 THEN a ELSE GCD(b, a % b)

Abs(n) == IF n < 0 THEN -n ELSE n

\* n/d in lowest terms, d > 0
Rat(n, d) == LET g == GCD(Abs(n), d) IN <<n \div g, d \div g>>

RInt(k) == <<k, 1>>
RAdd(x, y) == Rat(x[1] * y[2] + y[1] * x[2], x[2] * y[2])
RTimesInt(x, k) == Rat(x[1] * k, x[2])
RDivInt(x, k) == Rat(x[1], x[2] * k)
RGreater(x, y) == x[1] * y[2] > y[1] * x[2]

RECURSIVE RSum(_)
RSum(s) == IF s = <<>> THEN RInt(0) ELSE RAdd(Head(s), RSum(Tail(s)))

Metrics == {"loss", "acc1", "acc5"}

\* a (loss, acc1, acc5) triple of integers as a triple of rationals
Triple(o) == [m \in Metrics |-> RInt(o[m])]

\* -------------------------------------------------- collaborators' inputs
\* The compute engine (loss_func, compute_accuracy) is opaque: its output for
\* one batch on one worker is drawn from a small set.  The coarse engine
\* leaves the validation metrics free and fixes the training metrics, which
\* differ from worker to worker and from batch to batch.
CoarseOutputs(phase, rank, i) ==
    IF phase = "val"
    THEN { [loss |-> 3, acc1 |-> 0, acc5 |-> 1],
           [loss |-> 1, acc1 |-> 2, acc5 |-> 2] }
    ELSE { [loss |-> i + rank + 1, acc1 |-> rank, acc5 |-> rank + 1] }

\* The engine of the worked scenario: worker r's training loss on batch i
\* (0-based) is 2*i + r + 1, i.e. [1,2], [3,4], [5,6] for two workers; the
\* last batch of an epoch may also come out as a miss.
ScenarioOutputs(phase, rank, i) ==
    IF phase = "val"
    THEN { [loss |-> 1, acc1 |-> 1, acc5 |-> 2] }
    ELSE { [loss |-> 2 * i + rank + 1, acc1 |-> 1, acc5 |-> 2] }
         \cup (IF i = 2 THEN { [loss |-> 1, acc1 |-> 0, acc5 |-> 0] } ELSE {})

\* An engine whose output depends on the worker and the batch only.
FixedOutputs(phase, rank, i) ==
    { [loss |-> i + rank + 1, acc1 |-> rank + 1, acc5 |-> rank + 2] }

EngineOutputs(eng, phase, rank, i) ==
    CASE eng = "scenario" -> ScenarioOutputs(phase, rank, i)
      [] eng = "fixed" -> FixedOutputs(phase, rank, i)
      [] OTHER -> CoarseOutputs(phase, rank, i)

\* A data source: the sizes data.size(0) of the batches each worker sees in
\* the train and the val phase.  DistributedSampler gives every worker the
\* same number of examples, so the sizes are the same on every worker.
CoarseLoaders == { [train |-> <<4, 2>>, val |-> <<4>>] }

ScenarioLoaders ==
    { [train |-> <<4, 4, 4>>, val |-> <<4>>],
      [train |-> <<4, 2>>, val |-> <<4, 2>>] }

CadenceLoaders == { [train |-> <<4>>, val |-> <<4>>] }

\* ------------------------------------------------------------------ state
VARIABLES
    \* the job: what outlives a launch
    jobcfg,         \* the configuration file
    loaders,        \* the data source
    engine,         \* the compute engine
    ckpt_file,      \* the local snapshot: <<>> or <<record>>
    database,       \* the records pushed to the metadata store, in order
    db_synced,      \* calls of database.sync_with_host()
    launches,       \* launches of the job so far
    \* the launch
    world_size,
    \* each worker process (indexed by rank)
    pc, config, current_epoch, model, optimizer, results, best_acc, is_best,
    setup,          \* what the constructor has done so far: the directory, the
                    \* loader parameters, the config copy, the staged snapshot
    step,           \* i of `for i, (data, labels) in enumerate(loader)`
    meters,         \* losses, top1, top5 of the running phase
    out,            \* loss, acc1, acc5 of the running batch
    rep,            \* rep_loss, rep_acc1, rep_acc5
    avg,            \* average_loss, average_top1, average_top5
    \* history variables of the launch
    loaded,         \* the checkpoint record load_checkpoint() read: <<>> or <<record>>
    ins,            \* the engine's outputs of the running phase, by batch
    ref,            \* the weighted average of the cluster means of `ins`
    audit,          \* which values were folded and appended
    calls,          \* the collective calls made, in order
    events,         \* the phases run, in order
    prints          \* the per-batch progress logs printed

jobvars == <<jobcfg, loaders, engine, ckpt_file, database, db_synced, launches>>
objvars == <<config, current_epoch, model, optimizer, results, best_acc, is_best, setup>>
batchvars == <<step, meters, out, rep, avg>>
histvars == <<loaded, ins, ref, audit, calls, events, prints>>
vars == <<jobvars, world_size, pc, objvars, batchvars, histvars>>

Active == 0 .. (world_size - 1)

\* ------------------------------------------------------------ data shapes
NoPath == [name |-> "none", ordinal |-> -1]
CheckpointPath == [name |-> "checkpoint", ordinal |-> -1]
\* download_file_from_bucket(filename, ordinal): the worker's own local copy
StagedPath(rank) == [name |-> "checkpoint", ordinal |-> rank]

EmptyHistory == [train |-> <<>>, val |-> <<>>]
EmptyResults ==
    [losses |-> EmptyHistory, accs_top1 |-> EmptyHistory, accs_top5 |-> EmptyHistory]

\* which list of results a metric of a phase goes to
ResultsKey(m) ==
    CASE m = "loss" -> "losses" [] m = "acc1" -> "accs_top1" [] OTHER -> "accs_top5"

ZeroTriple == [m \in Metrics |-> RInt(0)]

\* AverageMeter (train_utils): sum and count of the values seen, avg = sum / count
NewMeter == [sum |-> RInt(0), count |-> 0, avg |-> RInt(0)]

MeterUpdate(mt, val, n) ==
    LET s == RAdd(mt.sum, RTimesInt(val, n))
        c == mt.count + n
    IN  [sum |-> s, count |-> c, avg |-> RDivInt(s, c)]

NewMeters == [m \in Metrics |-> NewMeter]

NoAudit == [folds |-> <<>>, append |-> "none"]

\* nothing done yet: no directory made, no loader built (params), the config
\* file not copied, no snapshot staged or removed, load_checkpoint() not called
NoSetup ==
    [save_dir |-> FALSE, params |-> <<>>, config_copied |-> FALSE, staged |-> {},
     removed |-> {}, restore_called |-> FALSE]

\* (a mutant: the epoch of the snapshot is run again)
load_checkpoint_same_epoch(obj, cpt) ==
    [obj EXCEPT !.current_epoch = cpt.epoch,
                !.results = cpt.results,
                !.model = cpt.state_dict,
                !.optimizer = cpt.optimizer,
                !.best_acc = cpt.curr_best_acc,
                !.attrs = @ \cup {"results", "best_acc"},
                !.loaded = <<cpt>>]

\* (a mutant: the best accuracy of the snapshot is not restored)
load_checkpoint_no_best(obj, cpt) ==
    [obj EXCEPT !.current_epoch = cpt.epoch + 1,
                !.results = cpt.results,
                !.model = cpt.state_dict,
                !.optimizer = cpt.optimizer,
                !.attrs = @ \cup {"results"},
                !.loaded = <<cpt>>]

\* ------------------------------------------------------------ construction
\* load_checkpoint(): the attributes it sets on the trainer
load_checkpoint(obj, cpt) ==
    [obj EXCEPT !.current_epoch = cpt.epoch + 1,
                !.results = cpt.results,
                !.model = cpt.state_dict,
                !.optimizer = cpt.optimizer,
                !.best_acc = cpt.curr_best_acc,
                !.attrs = @ \cup {"results", "best_acc"},
                !.loaded = <<cpt>>]

\* Trainer.__init__ of the worker of rank w: current_epoch = 0, then the resume.
\* results and best_acc are not attributes yet (attrs), whatever they hold.
TrainerInit(w) ==
    LET obj == [config |-> config[w], current_epoch |-> 0, attrs |-> {},
                results |-> EmptyResults, best_acc |-> RInt(0),
                model |-> 0, optimizer |-> 0, is_best |-> FALSE, loaded |-> <<>>]
    IN  IF obj.config.resume_checkpoint # NoPath
        THEN LET staged ==
                     IF obj.config.tpu
                     THEN [obj EXCEPT !.config.resume_checkpoint = StagedPath(w)]
                     ELSE obj
             IN  load_checkpoint(staged, ckpt_file[1])
        ELSE obj

\* (a mutant: the constructor without its hasattr guards)
SupervisedInitOverwrite(obj) ==
    [obj EXCEPT !.results = EmptyResults,
                !.best_acc = RInt(-1),
                !.attrs = @ \cup {"results", "best_acc"},
                !.is_best = FALSE]

\* SupervisedImageNetTrainer.__init__ after super().__init__()
SupervisedInit(obj) ==
    [obj EXCEPT !.results = IF "results" \in obj.attrs THEN @ ELSE EmptyResults,
                !.best_acc = IF "best_acc" \in obj.attrs THEN @ ELSE RInt(-1),
                !.attrs = @ \cup {"results", "best_acc"},
                !.is_best = FALSE]

\* the keys load_checkpoint() asserts to be in the record it read
CheckpointKeys == {"epoch", "results", "state_dict", "optimizer", "curr_best_acc"}

\* load_checkpoint() raises: no file at the path, or a record without a key
RestoreFails(w) ==
    /\ config[w].resume_checkpoint # NoPath
    /\ \/ ckpt_file = <<>>
       \/ ~(CheckpointKeys \subseteq DOMAIN ckpt_file[1])

\* (a mutant: the keys are asserted after the epoch has been taken)
FailedRestoreLate(w) ==
    [current_epoch |-> 1, results |-> results[w], best_acc |-> best_acc[w]]

\* what the trainer holds when load_checkpoint() raises: the file test and the
\* asserts on the keys come before its first assignment
FailedRestore(w) ==
    [current_epoch |-> 0, results |-> results[w], best_acc |-> best_acc[w]]

Construct(w) ==
    /\ pc[w] = "init"
    /\ IF RestoreFails(w)
       THEN /\ config' = [config EXCEPT ![w].resume_checkpoint =
                             IF config[w].tpu THEN StagedPath(w) ELSE @]
            /\ current_epoch' = [current_epoch EXCEPT ![w] = FailedRestore(w).current_epoch]
            /\ results' = [results EXCEPT ![w] = FailedRestore(w).results]
            /\ best_acc' = [best_acc EXCEPT ![w] = FailedRestore(w).best_acc]
            /\ pc' = [pc EXCEPT ![w] = "fatal"]
            /\ UNCHANGED <<model, optimizer, is_best, loaded>>
       ELSE /\ LET obj == SupervisedInit(TrainerInit(w))
               IN  /\ config' = [config EXCEPT ![w] = obj.config]
                   /\ current_epoch' = [current_epoch EXCEPT ![w] = obj.current_epoch]
                   /\ model' = [model EXCEPT ![w] = obj.model]
                   /\ optimizer' = [optimizer EXCEPT ![w] = obj.optimizer]
                   /\ results' = [results EXCEPT ![w] = obj.results]
                   /\ best_acc' = [best_acc EXCEPT ![w] = obj.best_acc]
                   /\ is_best' = [is_best EXCEPT ![w] = obj.is_best]
                   /\ loaded' = [loaded EXCEPT ![w] = obj.loaded]
            /\ pc' = [pc EXCEPT ![w] = "ready"]
    /\ UNCHANGED <<jobvars, world_size, setup, batchvars, ins, ref, audit, calls, events,
                   prints>>

\* ---------------------------------------------------------------- launches
\* The memory of the processes of a launch before their constructors have run.
Processes(cfg, ws) ==
    [pc |-> [w \in Ranks |-> IF w < ws THEN "init" ELSE "off"],
     config |-> [w \in Ranks |-> cfg],
     current_epoch |-> [w \in Ranks |-> 0],
     model |-> [w \in Ranks |-> 0],
     optimizer |-> [w \in Ranks |-> 0],
     results |-> [w \in Ranks |-> EmptyResults],
     best_acc |-> [w \in Ranks |-> RInt(0)],
     is_best |-> [w \in Ranks |-> FALSE],
     setup |-> [w \in Ranks |-> NoSetup],
     step |-> [w \in Ranks |-> 0],
     meters |-> [w \in Ranks |-> NewMeters],
     out |-> [w \in Ranks |-> ZeroTriple],
     rep |-> [w \in Ranks |-> [vals |-> ZeroTriple, reduced |-> FALSE]],
     avg |-> [w \in Ranks |-> [vals |-> ZeroTriple, reduced |-> FALSE]],
     loaded |-> [w \in Ranks |-> <<>>],
     ins |-> [w \in Ranks |-> <<>>],
     ref |-> [w \in Ranks |-> ZeroTriple],
     audit |-> [w \in Ranks |-> NoAudit],
     calls |-> [w \in Ranks |-> <<>>],
     events |-> [w \in Ranks |-> <<>>],
     prints |-> [w \in Ranks |-> <<>>]]

Launched(cfg, ws) ==
    LET p == Processes(cfg, ws)
    IN  /\ jobcfg = cfg
        /\ world_size = ws
        /\ pc = p.pc
        /\ config = p.config
        /\ current_epoch = p.current_epoch
        /\ model = p.model
        /\ optimizer = p.optimizer
        /\ results = p.results
        /\ best_acc = p.best_acc
        /\ is_best = p.is_best
        /\ setup = p.setup
        /\ step = p.step
        /\ meters = p.meters
        /\ out = p.out
        /\ rep = p.rep
        /\ avg = p.avg
        /\ loaded = p.loaded
        /\ ins = p.ins
        /\ ref = p.ref
        /\ audit = p.audit
        /\ calls = p.calls
        /\ events = p.events
        /\ prints = p.prints

\* A fresh job: no snapshot, nothing pushed, resume_checkpoint: None.
InitWith(Ns, Fs, Dbs, Tpus, Ws, Ls, Es) ==
    /\ \E n \in Ns, f \in Fs, d \in Dbs, t \in Tpus, ws \in Ws :
          Launched([num_epochs |-> n, save_freq |-> f, use_mongodb |-> d,
                    tpu |-> t, resume_checkpoint |-> NoPath], ws)
    /\ loaders \in Ls
    /\ engine \in Es
    /\ ckpt_file = <<>>
    /\ database = <<>>
    /\ db_synced = 0
    /\ launches = 1

Init ==
    InitWith(1 .. MaxEpochs, 1 .. MaxFreq, BOOLEAN, BOOLEAN, 1 .. MaxWorkers,
             CoarseLoaders, {"coarse"})

\* The job is stopped wherever it is (a crash, a hang, an operator) and run
\* again against its last local snapshot, on as many devices as it is given.
ResumeConfig ==
    [jobcfg EXCEPT !.resume_checkpoint =
                       IF ckpt_file = <<>> THEN NoPath ELSE CheckpointPath]

Relaunch ==
    /\ launches < MaxLaunches
    /\ launches' = launches + 1
    /\ \E ws \in 1 .. MaxWorkers :
          LET cfg == ResumeConfig
              p == Processes(cfg, ws)
          IN /\ jobcfg' = cfg
             /\ world_size' = ws
             /\ pc' = p.pc
             /\ config' = p.config
             /\ current_epoch' = p.current_epoch
             /\ model' = p.model
             /\ optimizer' = p.optimizer
             /\ results' = p.results
             /\ best_acc' = p.best_acc
             /\ is_best' = p.is_best
             /\ setup' = p.setup
             /\ step' = p.step
             /\ meters' = p.meters
             /\ out' = p.out
             /\ rep' = p.rep
             /\ avg' = p.avg
             /\ loaded' = p.loaded
             /\ ins' = p.ins
             /\ ref' = p.ref
             /\ audit' = p.audit
             /\ calls' = p.calls
             /\ events' = p.events
             /\ prints' = p.prints
    /\ UNCHANGED <<loaders, engine, ckpt_file, database, db_synced>>

\* ------------------------------------------------------------------ train()
Rank(w) == w
UseTpu(w) == config[w].tpu
HasDatabase(w) == config[w].use_mongodb

Event(op, w, ran, best, save_epoch) ==
    [op |-> op, epoch |-> current_epoch[w], ran |-> ran, is_best |-> best,
     save_epoch |-> save_epoch]

Call(fn, phase, m, tag, w) ==
    [fn |-> fn, phase |-> phase, metric |-> m, tag |-> tag, epoch |-> current_epoch[w]]

\* the three reduce_metric calls of one batch, in the order of the source
ReduceCalls(phase, w) ==
    << Call("reduce_metric", phase, "loss", "", w),
       Call("reduce_metric", phase, "acc1", "", w),
       Call("reduce_metric", phase, "acc5", "", w) >>

\* the three xm.mesh_reduce calls of one phase, with their tags
MeshTag(phase, m) ==
    CASE phase = "train" /\ m = "loss" -> "train_average_loss"
      [] phase = "train" /\ m = "acc1" -> "train_average_top1"
      [] phase = "train" /\ m = "acc5" -> "train_average_top5"
      [] phase = "val" /\ m = "loss" -> "val_average_loss"
      [] phase = "val" /\ m = "acc1" -> "val_average_top1"
      [] OTHER -> "val_average_top5"

MeshCalls(phase, w) ==
    << Call("mesh_reduce", phase, "loss", MeshTag(phase, "loss"), w),
       Call("mesh_reduce", phase, "acc1", MeshTag(phase, "acc1"), w),
       Call("mesh_reduce", phase, "acc5", MeshTag(phase, "acc5"), w) >>

\* (a mutant: the loop starts at epoch 0 whatever current_epoch holds)
LoopIndexFromZero(w) == IF pc[w] = "ready" THEN 0 ELSE current_epoch[w] + 1

\* the head of the epoch loop of train(), down to the first batch of
\* train_one_epoch(): i is current_epoch on entry, then one more each time round
LoopIndex(w) == IF pc[w] = "ready" THEN current_epoch[w] ELSE current_epoch[w] + 1

NextEpoch(w) ==
    /\ pc[w] \in {"ready", "loop"}
    /\ LoopIndex(w) < config[w].num_epochs
    /\ current_epoch' = [current_epoch EXCEPT ![w] = LoopIndex(w)]
    /\ step' = [step EXCEPT ![w] = 0]
    /\ meters' = [meters EXCEPT ![w] = NewMeters]
    /\ ins' = [ins EXCEPT ![w] = <<>>]
    /\ audit' = [audit EXCEPT ![w] = NoAudit]
    /\ events' = [events EXCEPT ![w] =
                     Append(@, [op |-> "train", epoch |-> LoopIndex(w), ran |-> TRUE,
                                is_best |-> FALSE, save_epoch |-> -1])]
    /\ pc' = [pc EXCEPT ![w] = "train_batch"]
    /\ UNCHANGED <<jobvars, world_size, setup, config, model, optimizer, results, best_acc,
                   is_best, out, rep, avg, loaded, ref, calls, prints>>

\* (a mutant: the worker's own value is reported on every device)
TrainRepItem(w, vals) == [via |-> "item", vals |-> vals]

\* rep_loss, rep_acc1, rep_acc5 of a training batch: the worker's own values
\* on TPU, the all-reduced values otherwise
TrainRep(w, vals) ==
    IF UseTpu(w)
    THEN [via |-> "item", vals |-> vals]
    ELSE [via |-> "reduce_metric", vals |-> vals]

\* one batch of train_one_epoch(), down to the reduction of its metrics
TrainBatch(w) ==
    /\ pc[w] = "train_batch"
    /\ \E o \in EngineOutputs(engine, "train", Rank(w), step[w]) :
          LET r == TrainRep(w, Triple(o))
          IN  /\ out' = [out EXCEPT ![w] = Triple(o)]
              /\ ins' = [ins EXCEPT ![w] = Append(@, Triple(o))]
              /\ rep' = [rep EXCEPT ![w] = [vals |-> r.vals, reduced |-> FALSE]]
              /\ calls' = [calls EXCEPT ![w] =
                              IF r.via = "item" THEN @ ELSE @ \o ReduceCalls("train", w)]
              /\ pc' = [pc EXCEPT ![w] =
                           IF r.via = "item" THEN "train_fold" ELSE "train_reduce"]
    /\ model' = [model EXCEPT ![w] = @ + 1]
    /\ optimizer' = [optimizer EXCEPT ![w] = @ + 1]
    /\ UNCHANGED <<jobvars, world_size, setup, config, current_epoch, results, best_acc,
                   is_best, step, meters, avg, loaded, ref, audit, events, prints>>

\* --------------------------------------------------------------- reductions
RECURSIVE SeqSum(_)
SeqSum(s) == IF s = <<>> THEN 0 ELSE Head(s) + SeqSum(Tail(s))

\* the mean over the workers of f[rank][m]
WorkerMean(f, m) ==
    RDivInt(RSum([r \in 1 .. world_size |-> f[r - 1][m]]), world_size)

\* reduce_metric(tensor, world_size) (train_utils): all-reduce sum / world_size
reduce_metric(m) == WorkerMean(out, m)

\* (a mutant: the replicas' averages are summed, not averaged)
MeshReduceSum(m) == RSum([r \in 1 .. world_size |-> avg[r - 1].vals[m]])

\* xm.mesh_reduce(tag, average, np.mean)
mesh_reduce(m) == WorkerMean([r \in Ranks |-> avg[r].vals], m)

\* History: the weighted average, over the batches every worker has drawn, of
\* the cluster mean of the engine's outputs.
Batches == 1 .. Len(ins[0])
AllDrawn == \A r \in Active : Len(ins[r]) = Len(ins[0])
ClusterMean(b, m) ==
    RDivInt(RSum([r \in 1 .. world_size |-> ins[r - 1][b][m]]), world_size)
WeightedClusterAvg(weights, m) ==
    RDivInt(RSum([b \in Batches |-> RTimesInt(ClusterMean(b, m), weights[b])]),
            SeqSum([b \in Batches |-> weights[b]]))
RefAvg(weights) ==
    IF AllDrawn /\ Len(ins[0]) \in 1 .. Len(weights)
    THEN [m \in Metrics |-> WeightedClusterAvg(weights, m)]
    ELSE ZeroTriple

PhaseWeights == IF pc[0] \in {"train_reduce", "train_mesh"} THEN loaders.train ELSE loaders.val

\* The all-reduce completes when every worker of the launch is blocked in it.
ReduceMetric ==
    /\ \A w \in Active : pc[w] \in {"train_reduce", "val_reduce"}
    /\ rep' = [w \in Ranks |->
                  IF w \in Active
                  THEN [vals |-> [m \in Metrics |-> reduce_metric(m)], reduced |-> TRUE]
                  ELSE rep[w]]
    /\ pc' = [w \in Ranks |->
                 CASE pc[w] = "train_reduce" -> "train_fold"
                   [] pc[w] = "val_reduce" -> "val_fold"
                   [] OTHER -> pc[w]]
    /\ ref' = [w \in Ranks |-> IF w \in Active THEN RefAvg(PhaseWeights) ELSE ref[w]]
    /\ UNCHANGED <<jobvars, world_size, objvars, step, meters, out, avg, loaded, ins,
                   audit, calls, events, prints>>

\* The mesh-reduce completes when every worker of the launch waits at the
\* rendezvous of the same tag.
MeshReduce ==
    /\ \A w \in Active : pc[w] \in {"train_mesh", "val_mesh"}
    /\ \A w \in Active : pc[w] = pc[0]
    /\ avg' = [w \in Ranks |->
                  IF w \in Active
                  THEN [vals |-> [m \in Metrics |-> mesh_reduce(m)], reduced |-> TRUE]
                  ELSE avg[w]]
    /\ pc' = [w \in Ranks |->
                 CASE pc[w] = "train_mesh" -> "train_append"
                   [] pc[w] = "val_mesh" -> "val_append"
                   [] OTHER -> pc[w]]
    /\ ref' = [w \in Ranks |-> IF w \in Active THEN RefAvg(PhaseWeights) ELSE ref[w]]
    /\ UNCHANGED <<jobvars, world_size, objvars, step, meters, out, rep, loaded, ins,
                   audit, calls, events, prints>>

\* ------------------------------------------------------ train_one_epoch()
\* (a mutant: the batch size is not passed to the meters)
FoldMetersUnweighted(ms, vals, n) == [m \in Metrics |-> MeterUpdate(ms[m], vals[m], 1)]

\* losses.update(rep_loss, data.size(0)), and top1 and top5 likewise
FoldMeters(ms, vals, n) == [m \in Metrics |-> MeterUpdate(ms[m], vals[m], n)]

LogLine(w, kind) == [kind |-> kind, epoch |-> current_epoch[w], step |-> step[w]]

\* curr_step = self.current_epoch * num_batches + i
CurrStep(w) == current_epoch[w] * Len(loaders.train) + step[w]

\* the progress log of one training batch: "progress" is the log of the
\* worker of rank 0, "xla" the per-worker log that reads the rate tracker
\* and the wrapped loader, which exist on TPU only
ProgressLog(w) ==
    IF (~UseTpu(w)) /\ Rank(w) = 0
    THEN "progress"
    ELSE IF CurrStep(w) % LogEvery = 0
         THEN IF UseTpu(w) THEN "xla" ELSE "unbound"
         ELSE "nothing"

\* the rest of the batch: the running averages and the progress log
TrainFold(w) ==
    /\ pc[w] = "train_fold"
    /\ meters' = [meters EXCEPT ![w] = FoldMeters(@, rep[w].vals, loaders.train[step[w] + 1])]
    /\ audit' = [audit EXCEPT ![w].folds = Append(@, rep[w].reduced)]
    /\ IF ProgressLog(w) = "unbound"
       THEN \* UnboundLocalError: tracker
            /\ pc' = [pc EXCEPT ![w] = "error"]
            /\ UNCHANGED <<step, prints>>
       ELSE /\ prints' = [prints EXCEPT ![w] =
                             IF ProgressLog(w) = "nothing"
                             THEN @ ELSE Append(@, LogLine(w, ProgressLog(w)))]
            /\ step' = [step EXCEPT ![w] = @ + 1]
            /\ pc' = [pc EXCEPT ![w] =
                         IF step[w] + 1 < Len(loaders.train)
                         THEN "train_batch" ELSE "train_end"]
    /\ UNCHANGED <<jobvars, world_size, objvars, out, rep, avg, loaded, ins, ref,
                   calls, events>>

MeterAvgs(ms) == [m \in Metrics |-> ms[m].avg]

\* after the last batch: the averages of the epoch
TrainEnd(w) ==
    /\ pc[w] = "train_end"
    /\ avg' = [avg EXCEPT ![w] = [vals |-> MeterAvgs(meters[w]), reduced |-> FALSE]]
    /\ calls' = [calls EXCEPT ![w] =
                    IF UseTpu(w) THEN @ \o MeshCalls("train", w) ELSE @]
    /\ pc' = [pc EXCEPT ![w] = IF UseTpu(w) THEN "train_mesh" ELSE "train_append"]
    /\ UNCHANGED <<jobvars, world_size, objvars, step, meters, out, rep, loaded, ins,
                   ref, audit, events, prints>>

\* (a mutant: the top-5 accuracy is not appended)
AppendResultsNoTop5(res, phase, vals) ==
    [res EXCEPT !.losses[phase] = Append(@, vals["loss"]),
                !.accs_top1[phase] = Append(@, vals["acc1"])]

AppendResults(res, phase, vals) ==
    [res EXCEPT !.losses[phase] = Append(@, vals["loss"]),
                !.accs_top1[phase] = Append(@, vals["acc1"]),
                !.accs_top5[phase] = Append(@, vals["acc5"])]

\* train_one_epoch() and validate() return: their locals are gone
Return(w) ==
    /\ step' = [step EXCEPT ![w] = 0]
    /\ meters' = [meters EXCEPT ![w] = NewMeters]
    /\ out' = [out EXCEPT ![w] = ZeroTriple]
    /\ rep' = [rep EXCEPT ![w] = [vals |-> ZeroTriple, reduced |-> FALSE]]
    /\ avg' = [avg EXCEPT ![w] = [vals |-> ZeroTriple, reduced |-> FALSE]]

AppendKind(w) == IF avg[w].reduced THEN "mesh" ELSE "meter"

TrainAppend(w) ==
    /\ pc[w] = "train_append"
    /\ results' = [results EXCEPT ![w] = AppendResults(@, "train", avg[w].vals)]
    /\ audit' = [audit EXCEPT ![w].append = AppendKind(w)]
    /\ Return(w)
    /\ pc' = [pc EXCEPT ![w] = "validate"]
    /\ UNCHANGED <<jobvars, world_size, setup, config, current_epoch, model, optimizer,
                   best_acc, is_best, loaded, ins, ref, calls, events, prints>>

\* --------------------------------------------------------------- validate()
\* (a mutant: validate() without its gate)
ValidationGateAlways(w) == TRUE

\* (a mutant: the gate without its last-epoch clause)
ValidationGateEveryF(w) == current_epoch[w] % config[w].save_freq = 0

ValidationGate(w) ==
    \/ current_epoch[w] % config[w].save_freq = 0
    \/ current_epoch[w] + 1 = config[w].num_epochs

\* (a mutant: an epoch off the cadence goes on to the next epoch without
\* its checkpoint phase)
ValidateThenLoop(w) ==
    /\ pc[w] = "validate"
    /\ IF ValidationGate(w)
       THEN /\ step' = [step EXCEPT ![w] = 0]
            /\ meters' = [meters EXCEPT ![w] = NewMeters]
            /\ ins' = [ins EXCEPT ![w] = <<>>]
            /\ pc' = [pc EXCEPT ![w] = "val_batch"]
       ELSE /\ pc' = [pc EXCEPT ![w] = "loop"]
            /\ UNCHANGED <<step, meters, ins>>
    /\ events' = [events EXCEPT ![w] =
                     Append(@, Event("validate", w, ValidationGate(w), FALSE, -1))]
    /\ UNCHANGED <<jobvars, world_size, objvars, out, rep, avg, loaded, ref, audit,
                   calls, prints>>

Validate(w) ==
    /\ pc[w] = "validate"
    /\ IF ValidationGate(w)
       THEN /\ step' = [step EXCEPT ![w] = 0]
            /\ meters' = [meters EXCEPT ![w] = NewMeters]
            /\ ins' = [ins EXCEPT ![w] = <<>>]
            /\ pc' = [pc EXCEPT ![w] = "val_batch"]
       ELSE /\ pc' = [pc EXCEPT ![w] = "save"]
            /\ UNCHANGED <<step, meters, ins>>
    /\ events' = [events EXCEPT ![w] =
                     Append(@, Event("validate", w, ValidationGate(w), FALSE, -1))]
    /\ UNCHANGED <<jobvars, world_size, objvars, out, rep, avg, loaded, ref, audit,
                   calls, prints>>

\* rep_loss, rep_acc1, rep_acc5 of a validation batch
ValRep(w, vals) ==
    IF UseTpu(w)
    THEN [via |-> "item", vals |-> vals]
    ELSE [via |-> "reduce_metric", vals |-> vals]

\* one batch of validate(), down to the reduction of its metrics
ValBatch(w) ==
    /\ pc[w] = "val_batch"
    /\ \E o \in EngineOutputs(engine, "val", Rank(w), step[w]) :
          LET r == ValRep(w, Triple(o))
          IN  /\ out' = [out EXCEPT ![w] = Triple(o)]
              /\ ins' = [ins EXCEPT ![w] = Append(@, Triple(o))]
              /\ rep' = [rep EXCEPT ![w] = [vals |-> r.vals, reduced |-> FALSE]]
              /\ calls' = [calls EXCEPT ![w] =
                              IF r.via = "item" THEN @ ELSE @ \o ReduceCalls("val", w)]
              /\ pc' = [pc EXCEPT ![w] =
                           IF r.via = "item" THEN "val_fold" ELSE "val_reduce"]
    /\ UNCHANGED <<jobvars, world_size, objvars, step, meters, avg, loaded, ref,
                   audit, events, prints>>

ValFold(w) ==
    /\ pc[w] = "val_fold"
    /\ meters' = [meters EXCEPT ![w] = FoldMeters(@, rep[w].vals, loaders.val[step[w] + 1])]
    /\ audit' = [audit EXCEPT ![w].folds = Append(@, rep[w].reduced)]
    /\ prints' = [prints EXCEPT ![w] =
                     IF (~UseTpu(w)) /\ Rank(w) = 0
                     THEN Append(@, LogLine(w, "val_progress")) ELSE @]
    /\ step' = [step EXCEPT ![w] = @ + 1]
    /\ pc' = [pc EXCEPT ![w] =
                 IF step[w] + 1 < Len(loaders.val) THEN "val_batch" ELSE "val_end"]
    /\ UNCHANGED <<jobvars, world_size, objvars, out, rep, avg, loaded, ins, ref,
                   calls, events>>

ValEnd(w) ==
    /\ pc[w] = "val_end"
    /\ avg' = [avg EXCEPT ![w] = [vals |-> MeterAvgs(meters[w]), reduced |-> FALSE]]
    /\ calls' = [calls EXCEPT ![w] =
                    IF UseTpu(w) THEN @ \o MeshCalls("val", w) ELSE @]
    /\ pc' = [pc EXCEPT ![w] = IF UseTpu(w) THEN "val_mesh" ELSE "val_append"]
    /\ UNCHANGED <<jobvars, world_size, objvars, step, meters, out, rep, loaded, ins,
                   ref, audit, events, prints>>

\* (a mutant: a tie with the best accuracy is flagged as a new best)
check_best_accuracy_ties(candidate, best) ==
    IF RGreater(best, candidate) THEN <<best, FALSE>> ELSE <<candidate, TRUE>>

\* check_best_accuracy(candidate, best) (train_utils): the new best and whether
\* the candidate is a new best
check_best_accuracy(candidate, best) ==
    IF RGreater(candidate, best) THEN <<candidate, TRUE>> ELSE <<best, FALSE>>

ValAppend(w) ==
    /\ pc[w] = "val_append"
    /\ results' = [results EXCEPT ![w] = AppendResults(@, "val", avg[w].vals)]
    /\ best_acc' = [best_acc EXCEPT ![w] =
                       check_best_accuracy(avg[w].vals["acc1"], best_acc[w])[1]]
    /\ is_best' = [is_best EXCEPT ![w] =
                      check_best_accuracy(avg[w].vals["acc1"], best_acc[w])[2]]
    /\ audit' = [audit EXCEPT ![w].append = AppendKind(w)]
    /\ events' = [events EXCEPT ![w] =
                     Append(@, Event("val_append", w, TRUE,
                                     RGreater(avg[w].vals["acc1"], best_acc[w]), -1))]
    /\ Return(w)
    /\ pc' = [pc EXCEPT ![w] = "save"]
    /\ UNCHANGED <<jobvars, world_size, setup, config, current_epoch, model, optimizer,
                   loaded, ins, ref, calls, prints>>

\* -------------------------------------------------------- save_checkpoint()
CurrState(w) ==
    [epoch |-> current_epoch[w], state_dict |-> model[w], optimizer |-> optimizer[w],
     results |-> results[w], curr_best_acc |-> best_acc[w]]

\* (a mutant: the push only in the last epoch)
CadenceGateLastOnly(w) == current_epoch[w] + 1 = config[w].num_epochs

\* (a mutant: the cadence without its last-epoch clause)
CadenceGateEveryF(w) == current_epoch[w] % config[w].save_freq = 0

CadenceGate(w) ==
    \/ current_epoch[w] % config[w].save_freq = 0
    \/ current_epoch[w] + 1 = config[w].num_epochs

\* (a mutant: every local save carries the cadence tag)
SaveEpochAlways(w) == current_epoch[w]

SaveEpoch(w) == IF CadenceGate(w) THEN current_epoch[w] ELSE -1

\* _save_to_db(curr_state, ["epoch", "results", "curr_best_acc"])
DbRecord(w) ==
    [exp_id |-> "exp_id", epoch |-> CurrState(w).epoch, results |-> CurrState(w).results,
     curr_best_acc |-> CurrState(w).curr_best_acc]

SaveToDb(w) ==
    IF Rank(w) = 0 /\ HasDatabase(w) THEN Append(database, DbRecord(w)) ELSE database

\* the first half of save_checkpoint(): the push to the metadata store
SaveDatabase(w) ==
    /\ pc[w] = "save"
    /\ database' = IF CadenceGate(w) THEN SaveToDb(w) ELSE database
    /\ pc' = [pc EXCEPT ![w] = "save_local"]
    /\ UNCHANGED <<jobcfg, loaders, engine, ckpt_file, db_synced, launches, world_size,
                   objvars, batchvars, histvars>>

\* save_checkpoint(state, save_dir, is_best, save_epoch, rank, tpu)
\* (train_utils): the coordinating worker writes the snapshot
WriteSnapshot(w) == IF Rank(w) = 0 THEN <<CurrState(w)>> ELSE ckpt_file

\* the second half of save_checkpoint(): the local snapshot
SaveLocal(w) ==
    /\ pc[w] = "save_local"
    /\ ckpt_file' = WriteSnapshot(w)
    /\ events' = [events EXCEPT ![w] =
                     Append(@, Event("save_checkpoint", w, TRUE, is_best[w], SaveEpoch(w)))]
    /\ pc' = [pc EXCEPT ![w] = "loop"]
    /\ UNCHANGED <<jobcfg, loaders, engine, database, db_synced, launches, world_size,
                   objvars, batchvars, loaded, ins, ref, audit, calls, prints>>

\* (a mutant: every worker flushes the connection)
CloseDbAnyRank(w) ==
    /\ pc[w] \in {"ready", "loop"}
    /\ ~(LoopIndex(w) < config[w].num_epochs)
    /\ db_synced' = IF HasDatabase(w) THEN db_synced + 1 ELSE db_synced
    /\ pc' = [pc EXCEPT ![w] = "closed"]
    /\ UNCHANGED <<jobcfg, loaders, engine, ckpt_file, database, launches, world_size,
                   objvars, batchvars, histvars>>

\* the end of train(): close_db()
CloseDb(w) ==
    /\ pc[w] \in {"ready", "loop"}
    /\ ~(LoopIndex(w) < config[w].num_epochs)
    /\ db_synced' = IF Rank(w) = 0 /\ HasDatabase(w) THEN db_synced + 1 ELSE db_synced
    /\ pc' = [pc EXCEPT ![w] = "closed"]
    /\ UNCHANGED <<jobcfg, loaders, engine, ckpt_file, database, launches, world_size,
                   objvars, batchvars, histvars>>

\* ---------------------------------------------------------- specifications
Step(w) ==
    \/ Construct(w)
    \/ NextEpoch(w)
    \/ TrainBatch(w)
    \/ TrainFold(w)
    \/ TrainEnd(w)
    \/ TrainAppend(w)
    \/ Validate(w)
    \/ ValBatch(w)
    \/ ValFold(w)
    \/ ValEnd(w)
    \/ ValAppend(w)
    \/ SaveDatabase(w)
    \/ SaveLocal(w)
    \/ CloseDb(w)

Next ==
    \/ \E w \in Ranks : Step(w)
    \/ ReduceMetric
    \/ MeshReduce
    \/ Relaunch

Spec == Init /\ [][Next]_vars

\* The cadence of long jobs: one launch, one batch per phase, a fixed engine.
InitCadence ==
    InitWith(1 .. CadenceEpochs, 1 .. CadenceFreq, BOOLEAN, BOOLEAN, 1 .. MaxWorkers,
             CadenceLoaders, {"fixed"})

NextCadence ==
    \/ \E w \in Ranks : Step(w)
    \/ ReduceMetric
    \/ MeshReduce

SpecCadence == InitCadence /\ [][NextCadence]_vars

\* The averages of an epoch: the engine of the worked scenario, every epoch
\* validated, nothing pushed.
InitScenario ==
    InitWith(1 .. ScenarioEpochs, {1}, {FALSE}, BOOLEAN, 1 .. MaxWorkers,
             ScenarioLoaders, {"scenario"})

SpecScenario == InitScenario /\ [][Next]_vars

\* The restore: the job is started with resume_checkpoint set to a path the
\* operator chose, where there is no file, a complete record, or a record
\* that lacks one key.
GivenRecord ==
    [epoch |-> 0, state_dict |-> 2, optimizer |-> 2,
     results |-> [losses |-> [train |-> <<RInt(2)>>, val |-> <<RInt(1)>>],
                  accs_top1 |-> [train |-> <<RInt(1)>>, val |-> <<RInt(1)>>],
                  accs_top5 |-> [train |-> <<RInt(2)>>, val |-> <<RInt(2)>>]],
     curr_best_acc |-> RInt(1)]

Without(rec, key) == [k \in (DOMAIN rec) \ {key} |-> rec[k]]

RestoreFiles ==
    {<<>>, <<GivenRecord>>} \cup { <<Without(GivenRecord, k)>> : k \in CheckpointKeys }

InitRestore ==
    /\ \E n \in 1 .. ScenarioEpochs, t \in BOOLEAN, ws \in 1 .. MaxWorkers :
          Launched([num_epochs |-> n, save_freq |-> 1, use_mongodb |-> FALSE,
                    tpu |-> t, resume_checkpoint |-> CheckpointPath], ws)
    /\ loaders \in CadenceLoaders
    /\ engine = "fixed"
    /\ ckpt_file \in RestoreFiles
    /\ database = <<>>
    /\ db_synced = 0
    /\ launches = 1

SpecRestore == InitRestore /\ [][Next]_vars

\* ------------------------------------------- the constructor, step by step
\* The keys a job must give. use_mongodb is read with a default (trainer.py:42).
RequiredKeys ==
    {"save_dir", "seed", "gpus", "tpu", "model", "db_name", "coll_name", "exp_id",
     "resume_checkpoint", "save_freq", "num_epochs"}

\* a configuration file that gives every key: t the topology (tpu), b the two
\* batch sizes of the whole job
FullConfig(n, f, d, t, path, b) ==
    [save_dir |-> "save_dir", seed |-> 0, gpus |-> ~t, tpu |-> t, model |-> "model",
     db_name |-> "db_name", coll_name |-> "coll_name", exp_id |-> "exp_id",
     use_mongodb |-> d, resume_checkpoint |-> path, save_freq |-> f, num_epochs |-> n,
     filepath |-> "filepath", dataloader_workers |-> 1,
     optimizer_params |-> [train_batch_size |-> b, val_batch_size |-> b]]

\* check_key(key): False where the assert would fail
check_key(w, key) == key \in DOMAIN config[w]

\* the process of rank w dies on an exception of its constructor or of train()
Raise(w) == pc' = [pc EXCEPT ![w] = "fatal"]

\* _make_save_dir()
MakeSaveDir(w) ==
    /\ pc[w] = "new"
    /\ IF check_key(w, "save_dir")
       THEN /\ setup' = [setup EXCEPT ![w].save_dir = TRUE]
            /\ pc' = [pc EXCEPT ![w] = "set_device"]
       ELSE /\ Raise(w)
            /\ UNCHANGED setup
    /\ UNCHANGED <<jobvars, world_size, config, current_epoch, model, optimizer, results,
                   best_acc, is_best, batchvars, histvars>>

\* _set_seed(), _set_device(), initialize_model(): the keys they check, and the
\* device: tpu without gpus, or gpus
DeviceSet(w) ==
    /\ \A k \in {"seed", "gpus", "tpu"} : check_key(w, k)
    /\ IF config[w].tpu THEN ~config[w].gpus ELSE config[w].gpus
    /\ check_key(w, "model")

SetDevice(w) ==
    /\ pc[w] = "set_device"
    /\ IF DeviceSet(w) THEN pc' = [pc EXCEPT ![w] = "dataloader"] ELSE Raise(w)
    /\ UNCHANGED <<jobvars, world_size, objvars, batchvars, histvars>>

HasVal(params) == "val_batch_size" \in DOMAIN params

\* (a mutant: the batch sizes are rounded up instead of asserted divisible)
wrap_dataloaders_ceil(params, ws) ==
    [ok |-> TRUE, params |-> [k \in DOMAIN params |-> (params[k] + ws - 1) \div ws]]

\* wrap_dataloaders(dataloader_func, params, ..., world_size): the asserts, and
\* params as dataloader_func receives it
wrap_dataloaders(params, ws) ==
    IF params.train_batch_size % ws # 0
    THEN [ok |-> FALSE, params |-> params]
    ELSE IF HasVal(params) /\ params.val_batch_size % ws # 0
         THEN [ok |-> FALSE, params |-> params]
         ELSE [ok |-> TRUE,
               params |-> [k \in DOMAIN params |->
                              IF k = "train_batch_size" \/ k = "val_batch_size"
                              THEN params[k] \div ws ELSE params[k]]]

\* the params dict initialize_dataloader() builds from the configuration
LoaderParams(w) ==
    [train_batch_size |-> config[w].optimizer_params.train_batch_size,
     val_batch_size |-> config[w].optimizer_params.val_batch_size]

\* initialize_dataloader(): the loaders themselves are the job's data source
InitializeDataloader(w) ==
    /\ pc[w] = "dataloader"
    /\ IF /\ check_key(w, "optimizer_params")
          /\ check_key(w, "dataloader_workers")
          /\ {"train_batch_size", "val_batch_size"} \subseteq DOMAIN config[w].optimizer_params
          /\ wrap_dataloaders(LoaderParams(w), world_size).ok
       THEN /\ setup' = [setup EXCEPT ![w].params =
                            <<wrap_dataloaders(LoaderParams(w), world_size).params>>]
            /\ pc' = [pc EXCEPT ![w] = "database"]
       ELSE /\ Raise(w)
            /\ UNCHANGED setup
    /\ UNCHANGED <<jobvars, world_size, config, current_epoch, model, optimizer, results,
                   best_acc, is_best, batchvars, histvars>>

\* the asserts on the keys of the store, current_epoch = 0, _save_config_file():
\* the coordinating worker copies the file
SetDatabase(w) ==
    /\ pc[w] = "database"
    /\ IF {"db_name", "coll_name", "exp_id"} \subseteq DOMAIN config[w]
       THEN /\ current_epoch' = [current_epoch EXCEPT ![w] = 0]
            /\ setup' = [setup EXCEPT ![w].config_copied = (Rank(w) = 0)]
            /\ pc' = [pc EXCEPT ![w] = "resume"]
       ELSE /\ Raise(w)
            /\ UNCHANGED <<current_epoch, setup>>
    /\ UNCHANGED <<jobvars, world_size, config, model, optimizer, results, best_acc,
                   is_best, batchvars, histvars>>

\* the trainer as Construct leaves it, from where the constructor stands
Constructed(w) ==
    LET obj == SupervisedInit(TrainerInit(w))
    IN  /\ config' = [config EXCEPT ![w] = obj.config]
        /\ current_epoch' = [current_epoch EXCEPT ![w] = obj.current_epoch]
        /\ model' = [model EXCEPT ![w] = obj.model]
        /\ optimizer' = [optimizer EXCEPT ![w] = obj.optimizer]
        /\ results' = [results EXCEPT ![w] = obj.results]
        /\ best_acc' = [best_acc EXCEPT ![w] = obj.best_acc]
        /\ is_best' = [is_best EXCEPT ![w] = obj.is_best]
        /\ loaded' = [loaded EXCEPT ![w] = obj.loaded]

\* download_file_from_bucket(filename, ordinal=self.rank): the worker's own
\* copy, and its path put in the place of the configured one
Stage(w) ==
    /\ config' = [config EXCEPT ![w].resume_checkpoint = StagedPath(Rank(w))]
    /\ setup' = [setup EXCEPT ![w].staged = @ \cup {StagedPath(Rank(w))}]

\* check_key("resume_checkpoint"); without a path the constructor is over, with
\* one the Mesh worker stages the snapshot
CheckResume(w) ==
    /\ pc[w] = "resume"
    /\ IF ~check_key(w, "resume_checkpoint")
       THEN /\ Raise(w)
            /\ UNCHANGED <<objvars, loaded>>
       ELSE IF config[w].resume_checkpoint = NoPath
            THEN /\ Constructed(w)
                 /\ pc' = [pc EXCEPT ![w] = "constructed"]
                 /\ UNCHANGED setup
            ELSE /\ IF UseTpu(w) THEN Stage(w) ELSE UNCHANGED <<config, setup>>
                 /\ pc' = [pc EXCEPT ![w] = "load"]
                 /\ UNCHANGED <<current_epoch, model, optimizer, results, best_acc,
                                is_best, loaded>>
    /\ UNCHANGED <<jobvars, world_size, batchvars, ins, ref, audit, calls, events, prints>>

\* (a mutant: the staged copy is removed whether or not the load succeeded)
RemoveStagedAlways(w, ok) ==
    IF UseTpu(w)
    THEN [setup[w] EXCEPT !.restore_called = TRUE,
                          !.staged = @ \ {config[w].resume_checkpoint},
                          !.removed = @ \cup {config[w].resume_checkpoint}]
    ELSE [setup[w] EXCEPT !.restore_called = TRUE]

\* os.remove(self.config["resume_checkpoint"]) on the Mesh worker, reached
\* only if load_checkpoint() returned (ok)
RemoveStaged(w, ok) ==
    IF UseTpu(w) /\ ok
    THEN [setup[w] EXCEPT !.restore_called = TRUE,
                          !.staged = @ \ {config[w].resume_checkpoint},
                          !.removed = @ \cup {config[w].resume_checkpoint}]
    ELSE [setup[w] EXCEPT !.restore_called = TRUE]

\* load_checkpoint(), the removal of the staged copy, and the rest of
\* SupervisedImageNetTrainer.__init__
LoadCheckpoint(w) ==
    /\ pc[w] = "load"
    /\ setup' = [setup EXCEPT ![w] = RemoveStaged(w, ~RestoreFails(w))]
    /\ IF RestoreFails(w)
       THEN /\ Raise(w)
            /\ UNCHANGED <<config, current_epoch, model, optimizer, results, best_acc,
                           is_best, loaded>>
       ELSE /\ Constructed(w)
            /\ pc' = [pc EXCEPT ![w] = "constructed"]
    /\ UNCHANGED <<jobvars, world_size, batchvars, ins, ref, audit, calls, events, prints>>

\* the head of train(): its two keys
TrainEntry(w) ==
    /\ pc[w] = "constructed"
    /\ IF check_key(w, "save_freq") /\ check_key(w, "num_epochs")
       THEN pc' = [pc EXCEPT ![w] = "ready"]
       ELSE Raise(w)
    /\ UNCHANGED <<jobvars, world_size, objvars, batchvars, histvars>>

InitStep(w) ==
    \/ MakeSaveDir(w)
    \/ SetDevice(w)
    \/ InitializeDataloader(w)
    \/ SetDatabase(w)
    \/ CheckResume(w)
    \/ LoadCheckpoint(w)
    \/ TrainEntry(w)

\* the configuration files of the jobs started here: complete, or one
\* required key short
ConfigFiles(n, f, d, t, path, b) ==
    {FullConfig(n, f, d, t, path, b)}
        \cup { Without(FullConfig(n, f, d, t, path, b), k) : k \in RequiredKeys }

\* the snapshot a longer job of the same experiment left after its epoch
\* ScenarioEpochs, every epoch validated
LaterRecord ==
    LET hist == [e \in 1 .. (ScenarioEpochs + 1) |-> RInt(1)]
    IN  [epoch |-> ScenarioEpochs, state_dict |-> 2, optimizer |-> 2,
         results |-> [k \in {"losses", "accs_top1", "accs_top5"} |->
                         [train |-> hist, val |-> hist]],
         curr_best_acc |-> RInt(1)]

\* A job started by its constructor: any configuration file of ConfigFiles,
\* either topology, with or without a path to resume from, with or without a
\* snapshot at that path (of epoch 0, or of a later epoch than the job asks
\* for); the data source gives batches of the per-worker size.
InitJob ==
    /\ \E n \in 1 .. ScenarioEpochs, t \in BOOLEAN, ws \in 1 .. MaxWorkers,
          path \in {NoPath, CheckpointPath}, b \in 1 .. MaxBatch :
          /\ \E cfg \in ConfigFiles(n, 1, TRUE, t, path, b) :
                LET p == Processes(cfg, ws)
                IN  /\ jobcfg = cfg
                    /\ world_size = ws
                    /\ pc = [w \in Ranks |-> IF w < ws THEN "new" ELSE "off"]
                    /\ config = p.config
                    /\ current_epoch = p.current_epoch
                    /\ model = p.model
                    /\ optimizer = p.optimizer
                    /\ results = p.results
                    /\ best_acc = p.best_acc
                    /\ is_best = p.is_best
                    /\ setup = p.setup
                    /\ step = p.step
                    /\ meters = p.meters
                    /\ out = p.out
                    /\ rep = p.rep
                    /\ avg = p.avg
                    /\ loaded = p.loaded
                    /\ ins = p.ins
                    /\ ref = p.ref
                    /\ audit = p.audit
                    /\ calls = p.calls
                    /\ events = p.events
                    /\ prints = p.prints
          /\ loaders = [train |-> <<b \div ws>>, val |-> <<b \div ws>>]
    /\ engine = "fixed"
    /\ ckpt_file \in {<<>>, <<GivenRecord>>, <<LaterRecord>>}
    /\ database = <<>>
    /\ db_synced = 0
    /\ launches = 1

NextJob ==
    \/ \E w \in Ranks :
          \/ InitStep(w)
          \/ NextEpoch(w)
          \/ TrainBatch(w)
          \/ TrainFold(w)
          \/ TrainEnd(w)
          \/ TrainAppend(w)
          \/ Validate(w)
          \/ ValBatch(w)
          \/ ValFold(w)
          \/ ValEnd(w)
          \/ ValAppend(w)
          \/ SaveDatabase(w)
          \/ SaveLocal(w)
          \/ CloseDb(w)
    \/ ReduceMetric
    \/ MeshReduce

SpecJob == InitJob /\ [][NextJob]_vars

\* ------------------------------------------------ wrap_dataloaders, called
\* The params wrap_dataloaders() may be given: a train batch size, and a val
\* batch size or none.
LoaderParamsGiven ==
    { [train_batch_size |-> t] : t \in 1 .. MaxBatch }
        \cup { [train_batch_size |-> t, val_batch_size |-> v] :
                   t \in 1 .. MaxBatch, v \in 1 .. MaxBatch }

\* A caller's params (kept in its configuration) and world size; every worker
\* is about to call wrap_dataloaders().
InitWrap ==
    /\ \E given \in LoaderParamsGiven, ws \in 1 .. MaxWorkers :
          LET cfg == [optimizer_params |-> given]
              p == Processes(cfg, ws)
          IN  /\ jobcfg = cfg
              /\ world_size = ws
              /\ pc = [w \in Ranks |-> IF w < ws THEN "wrap" ELSE "off"]
              /\ config = p.config
              /\ current_epoch = p.current_epoch
              /\ model = p.model
              /\ optimizer = p.optimizer
              /\ results = p.results
              /\ best_acc = p.best_acc
              /\ is_best = p.is_best
              /\ setup = p.setup
              /\ step = p.step
              /\ meters = p.meters
              /\ out = p.out
              /\ rep = p.rep
              /\ avg = p.avg
              /\ loaded = p.loaded
              /\ ins = p.ins
              /\ ref = p.ref
              /\ audit = p.audit
              /\ calls = p.calls
              /\ events = p.events
              /\ prints = p.prints
    /\ loaders \in CadenceLoaders
    /\ engine = "fixed"
    /\ ckpt_file = <<>>
    /\ database = <<>>
    /\ db_synced = 0
    /\ launches = 1

\* wrap_dataloaders(dataloader_func, params, my_transforms, device, rank,
\* world_size): it fails, or dataloader_func is called with the params
WrapDataloaders(w) ==
    /\ pc[w] = "wrap"
    /\ LET r == wrap_dataloaders(config[w].optimizer_params, world_size)
       IN  IF r.ok
           THEN /\ setup' = [setup EXCEPT ![w].params = <<r.params>>]
                /\ pc' = [pc EXCEPT ![w] = "wrapped"]
           ELSE /\ Raise(w)
                /\ UNCHANGED setup
    /\ UNCHANGED <<jobvars, world_size, config, current_epoch, model, optimizer, results,
                   best_acc, is_best, batchvars, histvars>>

NextWrap == \E w \in Ranks : WrapDataloaders(w)

SpecWrap == InitWrap /\ [][NextWrap]_vars

\* ------------------------------------------------------------------ claims
N == jobcfg.num_epochs
F == jobcfg.save_freq

\* the epochs of the events of worker w, of this launch, that satisfy op
EpochsOf(w, op) ==
    { events[w][k].epoch : k \in { j \in DOMAIN events[w] : events[w][j].op = op } }

\* the epochs the cadence names: every F-th, and the last
OnCadence(e) == e % F = 0 \/ e = N - 1

\* C1: in every epoch e that train() has taken through validate(), the
\* validation body (its batches, the val-history append, the best-accuracy
\* update) ran if and only if e mod F = 0 or e = N-1; with N = 10 and F = 3 a
\* finished fresh run has validated exactly the epochs 0, 3, 6 and 9.
C1_ValidationGating ==
    \A w \in Active :
        /\ \A e \in EpochsOf(w, "save_checkpoint") :
              e \in EpochsOf(w, "val_append") <=> OnCadence(e)
        /\ \A e \in EpochsOf(w, "val_append") : OnCadence(e)
        /\ (pc[w] = "closed" /\ N = 10 /\ F = 3)
              => EpochsOf(w, "val_append") = {0, 3, 6, 9}

C1_Witness ==
    /\ pc[0] = "closed"
    /\ N = 10 /\ F = 3
    /\ EpochsOf(0, "val_append") = {0, 3, 6, 9}
    /\ EpochsOf(0, "train") = 0 .. 9

\* C2 (as claimed): a finished fresh run with a metadata store has pushed
\* exactly floor((N-1)/F) + 1 records.
C2_PushCountAsClaimed ==
    (pc[0] = "closed" /\ launches = 1 /\ HasDatabase(0))
        => Len(database) = ((N - 1) \div F) + 1

\* C2 (amended): a finished fresh run with a metadata store has pushed one
\* record for every epoch e with e mod F = 0 or e = N-1, in the order of the
\* epochs: floor((N-1)/F) + 1 records when F divides N-1, and one more when
\* it does not.
C2_PushCount ==
    (pc[0] = "closed" /\ launches = 1 /\ HasDatabase(0))
        => /\ Len(database) =
                 ((N - 1) \div F) + 1 + (IF (N - 1) % F = 0 THEN 0 ELSE 1)
           /\ { database[k].epoch : k \in DOMAIN database } =
                 { e \in 0 .. (N - 1) : OnCadence(e) }
           /\ \A j, k \in DOMAIN database :
                 j < k => database[j].epoch < database[k].epoch

C2_Witness ==
    /\ pc[0] = "closed"
    /\ launches = 1
    /\ HasDatabase(0)
    /\ N = 10 /\ F = 4
    /\ Len(database) = 4

IsPrefix(s, t) == Len(s) <= Len(t) /\ SubSeq(t, 1, Len(s)) = s

HistoryKeys == {"losses", "accs_top1", "accs_top5"}

\* every list of res is a prefix of its list in later
Extends(later, res) ==
    \A k \in HistoryKeys :
        /\ IsPrefix(res[k].train, later[k].train)
        /\ IsPrefix(res[k].val, later[k].val)

\* C3: a trainer constructed from the checkpoint record of epoch E starts
\* train() with current_epoch = E+1, best_acc = the record's curr_best_acc and
\* results = the record's results; from then on its results only grow at the
\* end (the record's lists stay a prefix of them, one more train entry after
\* one more epoch), and it never runs an epoch <= E.
C3_ResumeRoundTrip ==
    \A w \in Active :
        loaded[w] # <<>> =>
            LET cpt == loaded[w][1]
            IN  /\ pc[w] = "ready" =>
                      /\ current_epoch[w] = cpt.epoch + 1
                      /\ best_acc[w] = cpt.curr_best_acc
                      /\ results[w] = cpt.results
                /\ Extends(results[w], cpt.results)
                /\ \A e \in EpochsOf(w, "train") : e > cpt.epoch
                /\ (pc[w] = "loop" /\ current_epoch[w] = cpt.epoch + 1) =>
                      \A k \in HistoryKeys :
                          Len(results[w][k].train) = Len(cpt.results[k].train) + 1

C3_Witness ==
    /\ loaded[0] # <<>>
    /\ pc[0] = "loop"
    /\ current_epoch[0] = loaded[0][1].epoch + 1
    /\ loaded[0][1].epoch = 0
    /\ Len(loaded[0][1].results.losses.val) = 1
    /\ Len(results[0].losses.train) = 2
    /\ Len(results[0].losses.val) = 2

\* C4 (as claimed): after every completed epoch e the train history and the
\* val history of every metric have length e+1.
C4_HistoryLengthAsClaimed ==
    \A w \in Active :
        pc[w] = "loop" =>
            \A k \in HistoryKeys :
                /\ Len(results[w][k].train) = current_epoch[w] + 1
                /\ Len(results[w][k].val) = current_epoch[w] + 1

\* C4 (amended): after every completed epoch e of a run, fresh or resumed from
\* the job's own snapshot under the same save_freq and num_epochs, the train
\* history of every metric has length e+1 and the val history of every metric
\* has one entry for each epoch <= e that is on the cadence (e mod F = 0 or
\* e = N-1), which is fewer than e+1 as soon as one epoch was off it.
C4_HistoryLength ==
    \A w \in Active :
        pc[w] = "loop" =>
            \A k \in HistoryKeys :
                /\ Len(results[w][k].train) = current_epoch[w] + 1
                /\ Len(results[w][k].val) =
                       Cardinality({ e \in 0 .. current_epoch[w] : OnCadence(e) })

C4_Witness ==
    /\ pc[0] = "loop"
    /\ loaded[0] # <<>>
    /\ current_epoch[0] = 2
    /\ F = 2
    /\ Len(results[0].accs_top5.train) = 3
    /\ Len(results[0].accs_top5.val) = 2

\* C5: the is_best flag handed to a checkpoint save is true only if the
\* validation of that same epoch ran and its top-1 accuracy exceeded the best
\* so far; a flag set in an earlier epoch is not carried into a later save.
C5_IsBestOfThisEpoch ==
    \A w \in Active :
        \A k \in DOMAIN events[w] :
            (events[w][k].op = "save_checkpoint" /\ events[w][k].is_best) =>
                \E j \in 1 .. (k - 1) :
                    /\ events[w][j].op = "val_append"
                    /\ events[w][j].epoch = events[w][k].epoch
                    /\ events[w][j].is_best

\* C6: a launch that resumed from the local snapshot never trains an epoch
\* whose record is already in the metadata store, and never leaves two
\* records of one epoch in the store.
Training == {"train_batch", "train_reduce", "train_fold", "train_end", "train_mesh",
             "train_append"}

C6_NoEpochTwice ==
    \A w \in Active :
        loaded[w] # <<>> =>
            /\ pc[w] \in Training =>
                  \A k \in DOMAIN database : database[k].epoch # current_epoch[w]
            /\ \A j, k \in DOMAIN database :
                  j # k => database[j].epoch # database[k].epoch

\* C7: the workers of a launch make the same collective calls in the same
\* order (the calls of one are a prefix of the calls of the other, and equal
\* when both have finished), and no worker is blocked in a reduction that a
\* peer will never enter.
Blocked == {"train_reduce", "val_reduce", "train_mesh", "val_mesh"}

C7_SameCollectives ==
    \A w, v \in Active :
        /\ IsPrefix(calls[w], calls[v]) \/ IsPrefix(calls[v], calls[w])
        /\ (pc[w] = "closed" /\ pc[v] = "closed") => calls[w] = calls[v]
        /\ pc[w] \in Blocked => pc[v] # "error"

\* C8: without TPU, every training batch is logged once, by the worker of
\* rank 0; the other workers log nothing and get through every batch without
\* an error, never reading the rate tracker or the wrapped loader.
C8_ProgressLogs ==
    \A w \in Active :
        ~UseTpu(w) =>
            /\ pc[w] # "error"
            /\ Rank(w) # 0 => prints[w] = <<>>
            /\ \A k \in DOMAIN prints[w] : prints[w][k].kind # "xla"

\* C9 (as claimed): on every device, every value folded into the running
\* averages has been reduced to the cluster-wide value first.
C9_ReducedBeforeFoldAsClaimed ==
    \A w \in Active :
        \A k \in DOMAIN audit[w].folds : audit[w].folds[k]

\* C9 (amended): without TPU every batch's loss, top-1 and top-5 values are
\* all-reduced before they are folded into the running averages; on TPU each
\* worker folds its own un-reduced values and the reduction (mesh_reduce) is
\* applied once per phase, to the running averages, before they are appended
\* to the history.
C9_ReducedBeforeFold ==
    \A w \in Active :
        /\ ~UseTpu(w) =>
              /\ \A k \in DOMAIN audit[w].folds : audit[w].folds[k]
              /\ audit[w].append # "mesh"
        /\ UseTpu(w) =>
              /\ \A k \in DOMAIN audit[w].folds : ~audit[w].folds[k]
              /\ audit[w].append # "meter"

C9_Witness ==
    /\ world_size = 2
    /\ ~UseTpu(1)
    /\ loaded[1] # <<>>
    /\ pc[1] = "save"
    /\ audit[1].folds = <<TRUE, TRUE, TRUE>>
    /\ audit[1].append = "meter"

\* C10: the epoch average appended to the history is, on every worker and
\* on every device, the weighted average (by batch size) of the per-batch
\* means over the workers of the engine's outputs; the workers of a launch
\* hold the same history; and with two workers and three batches of size 4
\* whose losses are [1,2], [3,4], [5,6] the train loss appended is 7/2.
LastOf(res, phase) ==
    [m \in Metrics |-> res[ResultsKey(m)][phase][Len(res[ResultsKey(m)][phase])]]

LastEvent(w) == events[w][Len(events[w])]

RampDrawn ==
    /\ world_size = 2
    /\ loaders.train = <<4, 4, 4>>
    /\ \A r \in Active :
          /\ Len(ins[r]) = 3
          /\ \A b \in 1 .. 3 : ins[r][b]["loss"] = RInt(2 * (b - 1) + r + 1)

C10_EpochAverage ==
    /\ \A w \in Active :
          /\ pc[w] = "validate" => LastOf(results[w], "train") = ref[w]
          /\ (pc[w] = "save" /\ LastEvent(w).op = "val_append")
                => LastOf(results[w], "val") = ref[w]
          /\ (pc[w] = "validate" /\ RampDrawn)
                => LastOf(results[w], "train")["loss"] = <<7, 2>>
    /\ \A w, v \in Active : Extends(results[w], results[v]) \/ Extends(results[v], results[w])

C10_Witness ==
    /\ ~UseTpu(0)
    /\ pc[0] = "validate"
    /\ pc[1] = "validate"
    /\ RampDrawn
    /\ LastOf(results[0], "train")["loss"] = <<7, 2>>
    /\ LastOf(results[1], "train")["loss"] = <<7, 2>>

C10_WitnessMesh ==
    /\ UseTpu(0)
    /\ pc[0] = "validate"
    /\ pc[1] = "validate"
    /\ RampDrawn
    /\ LastOf(results[0], "train")["loss"] = <<7, 2>>
    /\ LastOf(results[1], "train")["loss"] = <<7, 2>>

\* C11: a reduction over the workers' values returns their mean, the same on
\* every worker, and with one worker it is still called and returns the
\* worker's own value.  Checked where every worker has just left the same
\* reduction: after reduce_metric (the batch's values) and after
\* xm.mesh_reduce (the running averages).
AllAfterReduce ==
    \A r \in Active : pc[r] \in {"train_fold", "val_fold"} /\ rep[r].reduced

AllAfterMesh ==
    \A r \in Active : pc[r] \in {"train_append", "val_append"} /\ avg[r].reduced

MeanOfOutputs(m) == ClusterMean(Len(ins[0]), m)

MeanOfAverages(m) ==
    RDivInt(RSum([r \in 1 .. world_size |-> MeterAvgs(meters[r - 1])[m]]), world_size)

LastCall(w) == calls[w][Len(calls[w])]

C11_ReductionIsMean ==
    /\ AllAfterReduce =>
          \A w \in Active :
              /\ \A m \in Metrics : rep[w].vals[m] = MeanOfOutputs(m)
              /\ world_size = 1 => rep[w].vals = out[w]
              /\ Len(calls[w]) >= 3
              /\ LastCall(w).fn = "reduce_metric"
    /\ AllAfterMesh =>
          \A w \in Active :
              /\ \A m \in Metrics : avg[w].vals[m] = MeanOfAverages(m)
              /\ world_size = 1 => avg[w].vals = MeterAvgs(meters[w])
              /\ Len(calls[w]) >= 3
              /\ LastCall(w).fn = "mesh_reduce"

C11_Witness ==
    /\ world_size = 2
    /\ AllAfterReduce
    /\ out[0]["loss"] # out[1]["loss"]
    /\ rep[0].vals["loss"] = RDivInt(RAdd(out[0]["loss"], out[1]["loss"]), 2)
    /\ rep[1].vals = rep[0].vals

C11_WitnessMesh ==
    /\ world_size = 2
    /\ AllAfterMesh
    /\ meters[0]["loss"].avg # meters[1]["loss"].avg
    /\ avg[0].vals["loss"] = RDivInt(RAdd(meters[0]["loss"].avg, meters[1]["loss"].avg), 2)
    /\ avg[1].vals = avg[0].vals

C11_WitnessOne ==
    /\ world_size = 1
    /\ AllAfterReduce
    /\ rep[0].vals = out[0]
    /\ LastCall(0).fn = "reduce_metric"

\* C12: on TPU two mesh-reduce calls of a worker that differ in their epoch,
\* their phase or their metric never carry the same tag.
MeshCallsOf(w) == { k \in DOMAIN calls[w] : calls[w][k].fn = "mesh_reduce" }

C12_TagsDistinct ==
    \A w \in Active :
        \A j, k \in MeshCallsOf(w) :
            (\/ calls[w][j].epoch # calls[w][k].epoch
             \/ calls[w][j].phase # calls[w][k].phase
             \/ calls[w][j].metric # calls[w][k].metric)
                => calls[w][j].tag # calls[w][k].tag

\* C13: best_acc never decreases: not in any step of a running worker, not
\* from one snapshot to the next, and a resume restores the value the
\* snapshot holds; a fresh run starts at -1, below every accuracy validated.
Running(w) == pc[w] \notin {"init", "off"}

BestKept(w) ==
    (Running(w) /\ Running(w)') => ~RGreater(best_acc[w], best_acc'[w])

BestRestored(w) ==
    (pc[w] = "init" /\ pc'[w] = "ready") =>
        IF config[w].resume_checkpoint # NoPath
        THEN best_acc'[w] = ckpt_file[1].curr_best_acc
        ELSE best_acc'[w] = RInt(-1)

SnapshotBestKept ==
    (ckpt_file # <<>> /\ ckpt_file' # <<>>) =>
        ~RGreater(ckpt_file[1].curr_best_acc, ckpt_file'[1].curr_best_acc)

BestAboveSentinel ==
    \A w \in Ranks :
        \A k \in DOMAIN results'[w].accs_top1.val :
            RGreater(results'[w].accs_top1.val[k], RInt(-1))

C13_BestNeverDecreases ==
    [][ /\ \A w \in Ranks : BestKept(w) /\ BestRestored(w)
        /\ SnapshotBestKept
        /\ BestAboveSentinel ]_vars

C13_Witness ==
    /\ launches = 2
    /\ loaded[0] # <<>>
    /\ loaded[0][1].curr_best_acc = RInt(0)
    /\ best_acc[0] = RInt(2)
    /\ ckpt_file[1].curr_best_acc = RInt(2)

\* C14: the update of the best accuracy at the end of validate(): a candidate
\* not above the best leaves the best unchanged and is_best false (a tie
\* included), a candidate above it becomes the best with is_best true, and
\* the same candidate offered again is never a new best.
BestUpdated(w) ==
    LET x == avg[w].vals["acc1"]
        b == best_acc[w]
    IN  /\ IF RGreater(x, b)
           THEN best_acc'[w] = x /\ is_best'[w]
           ELSE best_acc'[w] = b /\ ~is_best'[w]
        /\ check_best_accuracy(x, best_acc'[w]) = <<best_acc'[w], FALSE>>

C14_BestUpdate ==
    [][ \A w \in Ranks :
            (pc[w] = "val_append" /\ pc'[w] = "save") => BestUpdated(w) ]_vars

C14_Witness ==
    /\ pc[0] = "save"
    /\ LastEvent(0).op = "val_append"
    /\ Len(results[0].accs_top1.val) = 2
    /\ results[0].accs_top1.val[1] = results[0].accs_top1.val[2]
    /\ best_acc[0] = results[0].accs_top1.val[2]
    /\ ~is_best[0]

\* C15: with a resume path configured the restore fails fatally exactly when
\* there is no file at the path or the record lacks one of its five keys;
\* a worker whose restore failed still has current_epoch 0, no history and
\* no best value of its own, and has run no phase of any epoch.
C15_RestoreFailsFatally ==
    \A w \in Active :
        /\ (pc[w] # "init" /\ RestoreFails(w)) => pc[w] = "fatal"
        /\ pc[w] = "fatal" =>
              /\ RestoreFails(w)
              /\ current_epoch[w] = 0
              /\ results[w] = Processes(jobcfg, world_size).results[w]
              /\ best_acc[w] = Processes(jobcfg, world_size).best_acc[w]
              /\ loaded[w] = <<>>
              /\ events[w] = <<>>
              /\ calls[w] = <<>>
        /\ pc[w] = "fatal" => database = <<>>

C15_Witness ==
    /\ pc[0] = "fatal"
    /\ ckpt_file # <<>>
    /\ DOMAIN ckpt_file[1] = CheckpointKeys \ {"curr_best_acc"}
    /\ current_epoch[0] = 0

C15_WitnessNoFile ==
    /\ pc[0] = "fatal"
    /\ ckpt_file = <<>>
    /\ jobcfg.resume_checkpoint = CheckpointPath

\* C16: in a fresh run the local checkpoint save is invoked once in every
\* epoch, in the order of the epochs and with the epoch's number in the
\* record, N times when the run has finished; the save of epoch e carries
\* save_epoch = e exactly when e mod F = 0 or e = N-1, and no tag otherwise.
IsSave(ev) == ev.op = "save_checkpoint"

Saves(w) == SelectSeq(events[w], IsSave)

C16_SaveEveryEpoch ==
    \A w \in Active :
        /\ \A k \in DOMAIN Saves(w) :
              /\ Saves(w)[k].epoch = k - 1
              /\ Saves(w)[k].save_epoch = IF OnCadence(k - 1) THEN k - 1 ELSE -1
        /\ pc[w] = "loop" => Len(Saves(w)) = current_epoch[w] + 1
        /\ pc[w] \in Training \cup {"validate", "save", "save_local"}
              => Len(Saves(w)) = current_epoch[w]
        /\ pc[w] = "closed" => Len(Saves(w)) = N
        /\ (Rank(w) = 0 /\ pc[w] = "loop")
              => ckpt_file # <<>> /\ ckpt_file[1].epoch = current_epoch[w]

C16_Witness ==
    /\ pc[0] = "closed"
    /\ N = 5 /\ F = 3
    /\ Len(Saves(0)) = 5
    /\ Saves(0)[2].save_epoch = -1
    /\ Saves(0)[3].save_epoch = -1
    /\ Saves(0)[4].save_epoch = 3
    /\ Saves(0)[5].save_epoch = 4
    /\ ckpt_file[1].epoch = 4

\* C17: train() entered with current_epoch = c runs the epochs c, c+1, ...,
\* N-1, each once and in this order, max(0, N - c) of them when it has
\* closed; and it does close unless a phase fails: every step of a worker
\* takes it further along the epochs and their phases (Position grows and is
\* bounded by N), and no worker waits in a reduction that a finished peer
\* has left behind.
IsTrain(ev) == ev.op = "train"

Trains(w) == SelectSeq(events[w], IsTrain)

StartEpoch(w) == IF loaded[w] = <<>> THEN 0 ELSE loaded[w][1].epoch + 1

Remaining(w) == IF N > StartEpoch(w) THEN N - StartEpoch(w) ELSE 0

EpochsInOrder ==
    \A w \in Active :
        /\ pc[w] = "ready" => current_epoch[w] = StartEpoch(w)
        /\ \A k \in DOMAIN Trains(w) : Trains(w)[k].epoch = StartEpoch(w) + k - 1
        /\ Len(Trains(w)) <= Remaining(w)
        /\ pc[w] = "closed" => Len(Trains(w)) = Remaining(w)

PhaseFailed == \E w \in Active : pc[w] \in {"error", "fatal"}

NotAbandoned ==
    \A w, v \in Active :
        (pc[w] \in Blocked /\ ~PhaseFailed) => pc[v] # "closed"

\* where a worker is in its epoch: the phase, the batch, the part of the batch
PhaseOf(p) ==
    CASE p = "ready" -> 0
      [] p \in {"train_batch", "train_reduce", "train_fold"} -> 1
      [] p = "train_end" -> 2
      [] p = "train_mesh" -> 3
      [] p = "train_append" -> 4
      [] p = "validate" -> 5
      [] p \in {"val_batch", "val_reduce", "val_fold"} -> 6
      [] p = "val_end" -> 7
      [] p = "val_mesh" -> 8
      [] p = "val_append" -> 9
      [] p = "save" -> 10
      [] p = "save_local" -> 11
      [] p = "loop" -> 12
      [] OTHER -> 13

PartOf(p) ==
    CASE p \in {"train_reduce", "val_reduce"} -> 1
      [] p \in {"train_fold", "val_fold"} -> 2
      [] OTHER -> 0

Position(p, e, i) == (e * 16 + PhaseOf(p)) * 16 + i * 4 + PartOf(p)

Advances ==
    \A w \in Ranks :
        (Running(w) /\ pc'[w] \notin {"init", "off"}) =>
            \/ pc'[w] = pc[w] /\ current_epoch'[w] = current_epoch[w] /\ step'[w] = step[w]
            \/ /\ Position(pc'[w], current_epoch'[w], step'[w])
                      > Position(pc[w], current_epoch[w], step[w])
               /\ current_epoch'[w] < N \/ pc'[w] = "closed"

C17_RemainingEpochs == [][EpochsInOrder' /\ NotAbandoned' /\ Advances]_vars

C17_Witness ==
    /\ pc[0] = "closed"
    /\ loaded[0] # <<>>
    /\ StartEpoch(0) = 1
    /\ N = 3
    /\ Len(Trains(0)) = 2
    /\ Trains(0)[1].epoch = 1
    /\ Trains(0)[2].epoch = 2

C17_WitnessNone ==
    /\ pc[0] = "closed"
    /\ StartEpoch(0) = N
    /\ Trains(0) = <<>>

\* C18: the phases of a worker come in the order train, validate, (the
\* validation body when gated in), checkpoint, epoch after epoch: training
\* of an epoch starts only when the checkpoint of the epoch before has
\* finished; and a phase appends to the history only when its reductions
\* are done (every batch all-reduced and folded, or the averages
\* mesh-reduced under the phase's tags).
After(w, k, ops) ==
    /\ k > 1
    /\ events[w][k - 1].op \in ops
    /\ events[w][k - 1].epoch = events[w][k].epoch

PhasesInOrder ==
    \A w \in Active :
        \A k \in DOMAIN events[w] :
            LET ev == events[w][k]
            IN  CASE ev.op = "train" ->
                       \/ k = 1
                       \/ /\ events[w][k - 1].op = "save_checkpoint"
                          /\ events[w][k - 1].epoch = ev.epoch - 1
                  [] ev.op = "validate" -> After(w, k, {"train"})
                  [] ev.op = "val_append" ->
                       After(w, k, {"validate"}) /\ events[w][k - 1].ran
                  [] ev.op = "save_checkpoint" ->
                       \/ After(w, k, {"val_append"})
                       \/ After(w, k, {"validate"}) /\ ~events[w][k - 1].ran
                  [] OTHER -> FALSE

PhaseAt(w) ==
    CASE pc[w] \in Training -> "train"
      [] pc[w] \in {"val_batch", "val_reduce", "val_fold", "val_end", "val_mesh"} -> "validate"
      [] pc[w] = "save" -> IF ValidationGate(w) THEN "val_append" ELSE "validate"
      [] pc[w] = "validate" -> "train"
      [] pc[w] = "val_append" -> "validate"
      [] pc[w] = "save_local" -> IF ValidationGate(w) THEN "val_append" ELSE "validate"
      [] pc[w] = "loop" -> "save_checkpoint"
      [] OTHER -> "any"

EventsFollowPhases ==
    \A w \in Active :
        PhaseAt(w) # "any" =>
            /\ events[w] # <<>>
            /\ LastEvent(w).op = PhaseAt(w)
            /\ LastEvent(w).epoch = current_epoch[w]

ReductionsDone(w, phase) ==
    /\ step[w] = Len(loaders[phase])
    /\ IF UseTpu(w)
       THEN /\ avg[w].reduced
            /\ LastCall(w) = Call("mesh_reduce", phase, "acc5", MeshTag(phase, "acc5"), w)
       ELSE /\ Len(audit[w].folds) >= step[w]
            /\ \A k \in DOMAIN audit[w].folds :
                  k > Len(audit[w].folds) - step[w] => audit[w].folds[k]
            /\ LastCall(w) = Call("reduce_metric", phase, "acc5", "", w)

AppendsAfterReductions ==
    \A w \in Ranks :
        (Running(w) /\ Running(w)' /\ results'[w] # results[w]) =>
            \/ pc[w] = "train_append" /\ ReductionsDone(w, "train")
            \/ pc[w] = "val_append" /\ ReductionsDone(w, "val")

C18_PhaseOrder ==
    [][PhasesInOrder' /\ EventsFollowPhases' /\ AppendsAfterReductions]_vars

C18_Witness ==
    /\ Len(events[0]) = 7
    /\ events[0][1].op = "train"
    /\ events[0][3].op = "val_append"
    /\ events[0][4].op = "save_checkpoint"
    /\ events[0][5].op = "train" /\ events[0][5].epoch = 1
    /\ events[0][6].op = "validate" /\ ~events[0][6].ran
    /\ events[0][7].op = "save_checkpoint" /\ events[0][7].epoch = 1

\* C19: every record added to the metadata store is added by the worker of
\* rank 0 in its checkpoint phase, with a database configured, carries
\* exactly the keys exp_id, epoch, results and curr_best_acc (no state_dict,
\* no optimizer), is the record of the worker's current epoch, and is the
\* only record of that epoch in the store.
PushedKeys == {"exp_id", "epoch", "results", "curr_best_acc"}

PushByRankZero ==
    /\ 0 \in Active
    /\ pc[0] = "save" /\ pc'[0] = "save_local"
    /\ HasDatabase(0)
    /\ Len(database') = Len(database) + 1
    /\ SubSeq(database', 1, Len(database)) = database
    /\ DOMAIN database'[Len(database')] = PushedKeys
    /\ database'[Len(database')].epoch = current_epoch[0]
    /\ database'[Len(database')].results = results[0]
    /\ database'[Len(database')].curr_best_acc = best_acc[0]

OncePerEpoch ==
    \A j, k \in DOMAIN database' : j # k => database'[j].epoch # database'[k].epoch

C19_PushesByCoordinator ==
    [][database' # database => PushByRankZero /\ OncePerEpoch]_vars

\* C20: the connection to the metadata store is flushed only by the worker
\* of rank 0, only with a database configured, only when its epoch loop is
\* over (after the checkpoint phase of epoch N-1, or at once when no epoch
\* was left), and exactly once: in the step that closes the worker.
LoopOver(w) ==
    \/ pc[w] = "ready" /\ current_epoch[w] >= N
    \/ /\ pc[w] = "loop"
       /\ current_epoch[w] = N - 1
       /\ LastEvent(w).op = "save_checkpoint"
       /\ LastEvent(w).epoch = N - 1

Closes(w) == pc[w] # "closed" /\ pc'[w] = "closed"

C20_ClosedOnceByCoordinator ==
    [][ /\ db_synced' # db_synced =>
              /\ Closes(0)
              /\ HasDatabase(0)
              /\ \A w \in Active \ {0} : ~Closes(w)
        /\ \A w \in Active :
              Closes(w) =>
                  /\ LoopOver(w)
                  /\ db_synced' = IF Rank(w) = 0 /\ HasDatabase(w)
                                  THEN db_synced + 1 ELSE db_synced ]_vars

C20_Witness ==
    /\ world_size = 2
    /\ pc[0] = "closed" /\ pc[1] = "closed"
    /\ HasDatabase(0)
    /\ launches = 1
    /\ db_synced = 1
    /\ N = 3
    /\ Len(Saves(0)) = 3

\* the required keys the configuration file of the job does not give
MissingKeys == RequiredKeys \ DOMAIN jobcfg

\* C21: the required keys (save_dir, seed, gpus, tpu, model, db_name,
\* coll_name, exp_id, resume_checkpoint, save_freq, num_epochs) are validated
\* in INIT: when one of them is missing from the configuration, no worker of
\* the job ever copies the configuration file, attempts the restore or runs
\* an epoch.
C21_KeysValidatedInInit ==
    \A w \in Active :
        MissingKeys # {} =>
            /\ ~setup[w].config_copied
            /\ ~setup[w].restore_called
            /\ events[w] = <<>>

\* C22: the job configuration is loaded once and never mutated: whatever a
\* worker has done (device setup, dataloader setup, resume, train, validate,
\* checkpoint), in either topology, its config still holds for every key the
\* value the configuration file of the job gives.
C22_ConfigNeverMutated == \A w \in Active : config[w] = jobcfg

\* the topology the configuration file asks for
Mesh == "tpu" \in DOMAIN jobcfg /\ jobcfg.tpu

\* the path the configuration file asks to resume from, if any
ResumePath ==
    IF "resume_checkpoint" \in DOMAIN jobcfg THEN jobcfg.resume_checkpoint ELSE NoPath

\* the constructor of worker w has called load_checkpoint() and it returned
RestoreDone(w) == setup[w].restore_called /\ loaded[w] # <<>>

\* C23: in Mesh topology with a resume path, a worker that is about to load or
\* has attempted the load has staged a copy of the checkpoint keyed by its own
\* rank, no other, and loads from it; the staged copy is deleted if and only
\* if the load has succeeded (after a failed load it is still there); in
\* MultiProcess topology, and without a resume path, nothing is staged or
\* deleted.
C23_StagedCopy ==
    \A w \in Active :
        /\ setup[w].staged \cup setup[w].removed \subseteq {StagedPath(Rank(w))}
        /\ setup[w].staged \cap setup[w].removed = {}
        /\ (Mesh /\ (pc[w] = "load" \/ setup[w].restore_called)) =>
              /\ StagedPath(Rank(w)) \in setup[w].staged \cup setup[w].removed
              /\ config[w].resume_checkpoint = StagedPath(Rank(w))
        /\ pc[w] = "load" => setup[w].removed = {}
        /\ Mesh => (setup[w].removed # {} <=> RestoreDone(w))
        /\ (Mesh /\ setup[w].restore_called /\ ~RestoreDone(w)) =>
              /\ pc[w] = "fatal"
              /\ setup[w].staged = {StagedPath(Rank(w))}
        /\ (~Mesh \/ ResumePath = NoPath) =>
              /\ setup[w].staged = {}
              /\ setup[w].removed = {}

\* C23 (witness): the Mesh worker of rank 1 has loaded the checkpoint from its
\* own staged copy and deleted the copy.
C23_Witness ==
    /\ Mesh
    /\ world_size = 2
    /\ RestoreDone(1)
    /\ setup[1].removed = {StagedPath(1)}
    /\ setup[1].staged = {}

\* C23 (witness): the load of a Mesh worker has failed and its staged copy is
\* still there.
C23_WitnessFailed ==
    /\ Mesh
    /\ pc[0] = "fatal"
    /\ setup[0].restore_called
    /\ setup[0].staged = {StagedPath(0)}

\* C23 (witness): a MultiProcess worker has resumed from the configured path.
C23_WitnessMultiProcess ==
    /\ ~Mesh
    /\ RestoreDone(0)
    /\ config[0].resume_checkpoint = CheckpointPath

\* the batch sizes the caller configured
Given == jobcfg.optimizer_params

\* C24: a call of wrap_dataloaders() has failed if and only if the train batch
\* size, or the val batch size when there is one, is not divisible by
\* world_size; otherwise each batch size it passes on is batch_size //
\* world_size (the val batch size stays absent if it was), so the per-worker
\* batch size times world_size is the configured batch size.
C24_BatchSizeSplit ==
    \A w \in Active :
        LET indivisible ==
                \E k \in DOMAIN Given : Given[k] % world_size # 0
        IN  /\ pc[w] = "fatal" <=> (pc[w] # "wrap" /\ indivisible)
            /\ pc[w] = "wrapped" <=> (pc[w] # "wrap" /\ ~indivisible)
            /\ pc[w] = "wrapped" =>
                  /\ Len(setup[w].params) = 1
                  /\ DOMAIN setup[w].params[1] = DOMAIN Given
                  /\ \A k \in DOMAIN Given :
                        /\ setup[w].params[1][k] = Given[k] \div world_size
                        /\ setup[w].params[1][k] * world_size = Given[k]
            /\ pc[w] # "wrapped" => setup[w].params = <<>>

\* C24 (witness): two workers; the call has passed on half of an even train
\* batch size, with no val batch size.
C24_Witness ==
    /\ world_size = 2
    /\ pc[1] = "wrapped"
    /\ ~HasVal(Given)
    /\ Given.train_batch_size = 4
    /\ setup[1].params = <<[train_batch_size |-> 2]>>

\* C24 (witness): the call has failed on a val batch size that two workers
\* cannot share, the train batch size being even.
C24_WitnessFailed ==
    /\ world_size = 2
    /\ pc[0] = "fatal"
    /\ HasVal(Given)
    /\ Given.train_batch_size % 2 = 0
    /\ Given.val_batch_size % 2 = 1

\* the phases of an epoch of train()
InEpoch ==
    Training \cup {"error", "validate", "val_batch", "val_reduce", "val_fold", "val_end",
                   "val_mesh", "val_append", "save", "save_local"}

\* worker w is inside an epoch the validation gate is false for
OffCadence(w) == pc[w] \in InEpoch /\ ~OnCadence(current_epoch[w])

ValLists(res) == [k \in HistoryKeys |-> res[k].val]

TrainLists(res) == [k \in HistoryKeys |-> res[k].train]

\* the collective calls worker w makes in this step
NewCalls(w) == SubSeq(calls'[w], Len(calls[w]) + 1, Len(calls'[w]))

\* a step of worker w, inside an epoch off the cadence, of one launch
OffCadenceStep(w) ==
    /\ OffCadence(w)
    /\ launches' = launches
    /\ best_acc'[w] = best_acc[w]
    /\ is_best'[w] = is_best[w]
    /\ ValLists(results'[w]) = ValLists(results[w])
    /\ IsPrefix(calls[w], calls'[w])
    /\ \A i \in DOMAIN NewCalls(w) : NewCalls(w)[i].phase = "train"
    /\ pc[w] = "validate" =>
          /\ pc'[w] \in {"validate", "save"}
          /\ calls'[w] = calls[w]
          /\ results'[w] = results[w]
    /\ pc'[w] \notin {"val_batch", "val_reduce", "val_fold", "val_end", "val_mesh",
                      "val_append"}
    /\ (pc[w] = "train_append" /\ pc'[w] = "validate") =>
          \A k \in HistoryKeys :
              Len(results'[w][k].train) = Len(results[w][k].train) + 1
    /\ pc[w] # "train_append" => TrainLists(results'[w]) = TrainLists(results[w])

\* C25: in an epoch where the validation gate is false (epoch mod save_freq
\* /= 0 and epoch /= num_epochs - 1) validate() leaves best_acc, is_best and
\* every val history list as they are and makes no reduction call, and so does
\* every other step of that epoch: only the train history grows, by one entry
\* per list, and the only collective calls are those of the training phase.
C25_SkippedValidation ==
    [][\A w \in Active :
          (OffCadence(w) /\ launches' = launches) => OffCadenceStep(w)]_vars

\* C25 (witness): validate() has returned in epoch 1 of a job of 3 epochs
\* validated every 2nd: the epoch's train entry is in the history, the val
\* lists hold the entry of epoch 0 only.
C25_Witness ==
    \E w \in Active :
        /\ N = 3
        /\ F = 2
        /\ pc[w] = "save"
        /\ current_epoch[w] = 1
        /\ LastEvent(w).op = "validate"
        /\ ~LastEvent(w).ran
        /\ \A k \in HistoryKeys :
              /\ Len(results[w][k].train) = 2
              /\ Len(results[w][k].val) = 1

\* worker w, the coordinator of a job with a metadata store, leaves the first
\* half of save_checkpoint() in this step
PushStep(w) ==
    /\ Rank(w) = 0
    /\ HasDatabase(w)
    /\ pc[w] = "save"
    /\ pc'[w] = "save_local"

Pushed == database' # database

LastRecord(db) == db[Len(db)]

\* in the launch of worker w validation has appended its averages in epoch e
ValidatedIn(w, e) == e \in EpochsOf(w, "val_append")

\* a record is pushed if and only if validation ran in the epoch, and then it
\* is the record of that epoch, whose last val entries are the averages the
\* validation of that epoch ended with
PushWithValidation(w) ==
    PushStep(w) =>
        /\ Pushed <=> ValidatedIn(w, current_epoch[w])
        /\ Pushed <=> ValidationGate(w)
        /\ Pushed =>
              /\ database' = Append(database, LastRecord(database'))
              /\ LastRecord(database').epoch = current_epoch[w]
              /\ LastEvent(w).op = "val_append"
              /\ LastEvent(w).epoch = current_epoch[w]
              /\ LastRecord(database').results = results[w]

\* the val entries validation appends are the averages it ended with, and the
\* event of the append is the last of the worker when save_checkpoint() starts
ValAppended(w) ==
    (pc[w] = "val_append" /\ pc'[w] = "save") =>
        /\ LastOf(results'[w], "val") = avg[w].vals
        /\ \A k \in HistoryKeys : Len(results'[w][k].val) = Len(results[w][k].val) + 1
        /\ LastEvent(w)'.op = "val_append"
        /\ LastEvent(w)'.epoch = current_epoch[w]

\* nothing is pushed by any other step
PushOnlyInSave == Pushed => \E w \in Active : PushStep(w)

\* the epochs up to e the cadence names
CadenceUpTo(e) == { x \in 0 .. e : OnCadence(x) }

\* on a fresh run every pushed record holds one val entry per cadence epoch up
\* to its own
ValEntriesOnCadence ==
    launches = 1 =>
        \A i \in DOMAIN database :
            \A k \in HistoryKeys :
                Len(database[i].results[k].val) = Cardinality(CadenceUpTo(database[i].epoch))

\* C26: the push to the metadata store and the validation phase are gated by
\* the same condition on the same epoch counter: the coordinator of a job with
\* a store pushes a record in save_checkpoint() if and only if validation ran
\* in that epoch; on a fresh run the number of val entries of every pushed
\* record of epoch E is the number of epochs e <= E with e mod save_freq = 0 or
\* e = num_epochs - 1; and the last val entry of a pushed record was computed
\* in the epoch the record names.
C26_PushWithValidation ==
    [][/\ \A w \in Active : PushWithValidation(w) /\ ValAppended(w)
       /\ PushOnlyInSave
       /\ ValEntriesOnCadence']_vars

\* C26 (witness): a fresh job of 3 epochs validated every 2nd has pushed the
\* record of epoch 2 after that of epoch 0, with two val entries, and none for
\* epoch 1.
C26_Witness ==
    /\ launches = 1
    /\ N = 3
    /\ F = 2
    /\ Len(database) = 2
    /\ database[1].epoch = 0
    /\ database[2].epoch = 2
    /\ Len(database[2].results["losses"].val) = 2
    /\ Len(database[2].results["losses"].train) = 3

\* worker w has resumed from a checkpoint of an epoch E with E + 1 >= num_epochs
PastEnd(w) ==
    /\ MissingKeys = {}
    /\ loaded[w] # <<>>
    /\ loaded[w][1].epoch + 1 >= N

\* what such a worker holds: the restored values, and no trace of an epoch
NothingRun(w) ==
    /\ pc[w] \in {"constructed", "ready", "closed"}
    /\ current_epoch[w] = loaded[w][1].epoch + 1
    /\ results[w] = loaded[w][1].results
    /\ best_acc[w] = loaded[w][1].curr_best_acc
    /\ events[w] = <<>>
    /\ calls[w] = <<>>
    /\ prints[w] = <<>>

\* the steps of such a worker: into train(), then the close, made on the store
\* by rank 0 alone; nothing is pushed and no snapshot written
OnlyCloses(w) ==
    /\ database' = database
    /\ ckpt_file' = ckpt_file
    /\ pc'[w] # pc[w] =>
          \/ /\ pc[w] = "constructed"
             /\ pc'[w] = "ready"
             /\ db_synced' = db_synced
          \/ /\ pc[w] = "ready"
             /\ pc'[w] = "closed"
             /\ db_synced' =
                   IF Rank(w) = 0 /\ HasDatabase(w) THEN db_synced + 1 ELSE db_synced

\* C27: when the job is resumed from a checkpoint whose epoch E satisfies
\* E + 1 >= num_epochs, train() executes no epoch, writes no local checkpoint,
\* pushes nothing to the metadata store and leaves history and best_acc equal
\* to the restored values; its only effect is the close of the store, made
\* once, by rank 0.
C27_ResumePastEnd ==
    [][\A w \in Active :
          /\ PastEnd(w)' => NothingRun(w)'
          /\ PastEnd(w) => OnlyCloses(w)]_vars

\* C27 (witness): a job of 2 epochs with a store, resumed from a snapshot of
\* epoch 2 on two workers, is over: rank 0 has closed the store once.
C27_Witness ==
    /\ MissingKeys = {}
    /\ N = 2
    /\ world_size = 2
    /\ \A w \in Active : PastEnd(w) /\ pc[w] = "closed" /\ loaded[w][1].epoch = 2
    /\ HasDatabase(0)
    /\ db_synced = 1
    /\ database = <<>>

\* C27 (witness): a job of 1 epoch resumed from a snapshot of epoch 0 is over.
C27_WitnessLast ==
    /\ MissingKeys = {}
    /\ N = 1
    /\ PastEnd(0)
    /\ pc[0] = "closed"
    /\ loaded[0][1].epoch = 0
    /\ db_synced = 1

====
